---- MODULE Spec2Model ----
(***************************************************************************)
(* A model of the Open-Harness repository:                                 *)
(*   - scripts/redistribute-commits.py: the run of main() (fetch two       *)
(*     commit logs, redistribute the commits over a date range, verify the *)
(*     coverage, write the mapping file and the filter script);            *)
(*   - add_numbers.py, packages/sdk/add.py, packages/sdk/add_numbers.py:   *)
(*     the three add(a, b) functions.                                      *)
(* Spec is the run of the script, SpecAdd the calls of the add functions.  *)
(***************************************************************************)
EXTENDS Integers, Sequences, FiniteSets, TLC

(***************************************************************************)
(* Bounds of the model.                                                    *)
(***************************************************************************)
\* Most commits `git log` prints for the OpenHarness repository.
MaxOH == 9
\* Most commits `git log` prints for the open-scaffold repository.
MaxOS == 8
\* Most commits the two logs have in common (a shared root history).
MaxShared == 2
\* Most days of the date range.
MaxDays == 3
\* Largest magnitude of an ordinary int or float argument of add.
MaxNum == 2

(***************************************************************************)
(* Program constants.                                                      *)
(***************************************************************************)
\* START_DATE, as a day number: days are counted from START_DATE.
START_DATE == 0
\* The first hour of the day's window: hour = 9 + ...
WindowStart == 9
\* The length of the window in hours: ... * 14
WindowHours == 14
\* minute = (i * 7) % 60
MinuteStep == 7
MinuteMod == 60
SecondsPerMinute == 60
SecondsPerHour == 3600
SecondsPerDay == 86400

VARIABLES
    pc,            \* the statement of main() the run is at
    error,         \* the exception that ended the run, or "none"
    end_date,      \* END_DATE of the configuration, as a day number
    oh_commits,    \* main: oh_commits
    os_commits,    \* main: os_commits
    all_commits,   \* main: all_commits
    dates,         \* main: dates
    mapping,       \* redistribute: mapping (a dict, in insertion order)
    commit_idx,    \* redistribute: commit_idx
    day_idx,       \* redistribute: day_idx of the outer loop
    i,             \* redistribute: i of the inner loop
    assigned,      \* the inner loop's iterations so far, one record each
    missing,       \* main: missing (the coverage check)
    mapping_file,  \* scripts/commit-date-mapping.txt
    filter_script, \* scripts/rewrite-dates.py
    add_fn,        \* the add function called last, or "none"
    add_a,         \* its first argument
    add_b,         \* its second argument
    add_result     \* what the call did: a return value or an exception

vars == <<pc, error, end_date, oh_commits, os_commits, all_commits, dates,
          mapping, commit_idx, day_idx, i, assigned, missing, mapping_file,
          filter_script, add_fn, add_a, add_b, add_result>>

scriptVars == <<pc, error, end_date, oh_commits, os_commits, all_commits, dates,
                mapping, commit_idx, day_idx, i, assigned, missing,
                mapping_file, filter_script>>

addVars == <<add_fn, add_a, add_b, add_result>>

(***************************************************************************)
(* Sequences and dicts.                                                    *)
(***************************************************************************)
Range(s) == {s[k] : k \in DOMAIN s}

Max(a, b) == IF a >= b THEN a ELSE b

\* A Python dict is a sequence of [key, value] items in insertion order;
\* assigning to a key it holds replaces the value in place.
DictKeys(m) == {m[k].key : k \in DOMAIN m}

DictSet(m, key, value) ==
    IF key \in DictKeys(m)
    THEN [k \in DOMAIN m |->
            IF m[k].key = key THEN [key |-> key, value |-> value] ELSE m[k]]
    ELSE Append(m, [key |-> key, value |-> value])

DictValues(m) == {m[k].value : k \in DOMAIN m}

(***************************************************************************)
(* datetime values: a day number and a time of day.                        *)
(***************************************************************************)
Midnight(day) == [day |-> day, hour |-> 0, minute |-> 0, second |-> 0]

\* date.replace(hour=hour, minute=minute, second=0)
Replace(date, hour, minute) ==
    [day |-> date.day, hour |-> hour, minute |-> minute, second |-> 0]

\* int(new_date.timestamp()), counted from START_DATE's midnight.
Timestamp(dt) ==
    dt.day * SecondsPerDay + dt.hour * SecondsPerHour
        + dt.minute * SecondsPerMinute + dt.second

(***************************************************************************)
(* get_commits: the lines `git log` prints, and their parse.               *)
(***************************************************************************)
CommitLine(sha, date) == [kind |-> "commit", sha |-> sha, date |-> date]
BlankLine == [kind |-> "blank", sha |-> 0, date |-> 0]
MalformedLine == [kind |-> "malformed", sha |-> 0, date |-> 0]

\* result.stdout.strip().split("\n"): one line per commit, oldest first; an
\* empty output splits into one empty line. bad > 0 makes line `bad` one
\* that line.split or datetime.fromisoformat cannot parse.
LogLines(shas, bad) ==
    LET good == IF shas = <<>>
                THEN <<BlankLine>>
                ELSE [k \in 1..Len(shas) |-> CommitLine(shas[k], k)]
    IN [k \in 1..Len(good) |-> IF k = bad THEN MalformedLine ELSE good[k]]

\* The identifiers of n commits of the OpenHarness log.
OHShas(n) == [k \in 1..n |-> k]

\* The identifiers of n commits of the open-scaffold log, the first `shared`
\* of which are commits of the OpenHarness log too.
OSShas(n, shared) ==
    [k \in 1..n |-> IF k <= shared THEN k ELSE MaxOH + 1 + k]

OHLogs ==
    {LogLines(OHShas(n), bad) : n \in 0..MaxOH, bad \in 0..1}
        \cup {LogLines(OHShas(n), n) : n \in 1..MaxOH}

OSLogs ==
    UNION {{LogLines(OSShas(n, s), bad) : bad \in {0, 1, n}} :
              n \in 0..MaxOS, s \in 0..MaxShared}

RECURSIVE ParseLines(_, _)
ParseLines(lines, commits) ==
    IF lines = <<>>
    THEN [ok |-> TRUE, commits |-> commits]
    ELSE LET line == Head(lines)
         IN IF line.kind = "blank"
            THEN ParseLines(Tail(lines), commits)
            ELSE IF line.kind = "malformed"
            THEN [ok |-> FALSE, commits |-> <<>>]
            ELSE ParseLines(Tail(lines),
                            Append(commits, [sha |-> line.sha, date |-> line.date]))

(***************************************************************************)
(* generate_date_range                                                     *)
(***************************************************************************)
generate_date_range(start, end) ==
    IF start > end THEN <<>>
    ELSE [k \in 1..(end - start + 1) |-> Midnight(start + k - 1)]

(***************************************************************************)
(* redistribute                                                            *)
(***************************************************************************)
total_commits == Len(all_commits)
total_days == Len(dates)
\* A faulty variant: the quotient rounded up.
BasePerDayCeil == (total_commits + total_days - 1) \div total_days

\* base_per_day = total_commits // total_days
base_per_day == total_commits \div total_days
\* extra = total_commits % total_days
extra == total_commits % total_days

\* A faulty variant: one day too many gets an extra commit.
CommitsTodayLate(d) == base_per_day + (IF d <= extra THEN 1 ELSE 0)

\* A faulty variant: the remainder is dropped.
CommitsTodayNoExtra(d) == base_per_day

\* A faulty variant: the remainder goes to the last days.
CommitsTodayExtraLast(d) ==
    base_per_day + (IF d >= total_days - extra THEN 1 ELSE 0)

\* commits_today = base_per_day + (1 if day_idx < extra else 0)
CommitsToday(d) == base_per_day + (IF d < extra THEN 1 ELSE 0)

\* A faulty variant: the slot is counted from 1.
HourNextSlot(k, n) == WindowStart + (((k + 1) * WindowHours) \div Max(n, 1))

\* hour = 9 + int((i / max(commits_today, 1)) * 14): the float quotient times
\* 14, truncated, is floor(14*i/n) for every 0 <= i < n < 400.
Hour(k, n) == WindowStart + ((k * WindowHours) \div Max(n, 1))

\* minute = (i * 7) % 60
Minute(k) == (k * MinuteStep) % MinuteMod


(***************************************************************************)
(* The output artifacts.                                                   *)
(***************************************************************************)
\* f.write(f"{sha} {timestamp} -0800\n")
MappingLine(sha, new_date) ==
    [sha |-> sha, timestamp |-> Timestamp(new_date), offset |-> "-0800"]

\* A faulty variant: the author date keeps the day only.
TableEntryAuthorMidnight(sha, new_date) ==
    [key |-> sha,
     author_date |-> [timestamp |-> Timestamp(Midnight(new_date.day)),
                      offset |-> "-0800"],
     committer_date |-> [timestamp |-> Timestamp(new_date), offset |-> "-0800"]]

\* f.write(f'    b"{sha}": (b"{timestamp} -0800", b"{timestamp} -0800"),\n')
TableEntry(sha, new_date) ==
    [key |-> sha,
     author_date |-> [timestamp |-> Timestamp(new_date), offset |-> "-0800"],
     committer_date |-> [timestamp |-> Timestamp(new_date), offset |-> "-0800"]]

\* for sha, new_date in mapping.items(): one line (one entry) each, in order.
MappingLines(m) == [k \in DOMAIN m |-> MappingLine(m[k].key, m[k].value)]
TableEntries(m) == [k \in DOMAIN m |-> TableEntry(m[k].key, m[k].value)]

Absent == [state |-> "absent", content |-> <<>>]
Written(content) == [state |-> "written", content |-> content]
\* An I/O error after `n` of the lines were written.
Partial(content, n) == [state |-> "partial", content |-> SubSeq(content, 1, n)]

(***************************************************************************)
(* The coverage check of main.                                             *)
(***************************************************************************)
\* dates_used = set(d.date() for d in mapping.values())
DatesUsed == {d.day : d \in DictValues(mapping)}
\* all_dates = set(d.date() for d in dates)
AllDates == {d.day : d \in Range(dates)}

(***************************************************************************)
(* The initial state: the configuration is read, nothing has run.          *)
(***************************************************************************)
AddIdle == [outcome |-> "none", exc |-> "none", kind |-> "none", v |-> 0]
NoArg == [kind |-> "none", v |-> 0]

InitAddVars ==
    /\ add_fn = "none"
    /\ add_a = NoArg
    /\ add_b = NoArg
    /\ add_result = AddIdle

InitScript(ends) ==
    /\ pc = "fetch_oh"
    /\ error = "none"
    /\ end_date \in ends
    /\ oh_commits = <<>>
    /\ os_commits = <<>>
    /\ all_commits = <<>>
    /\ dates = <<>>
    /\ mapping = <<>>
    /\ commit_idx = 0
    /\ day_idx = 0
    /\ i = 0
    /\ assigned = <<>>
    /\ missing = {}
    /\ mapping_file = Absent
    /\ filter_script = Absent

\* Date ranges of 0 to MaxDays days.
Init ==
    /\ InitScript((START_DATE - 1)..(START_DATE + MaxDays - 1))
    /\ InitAddVars

(***************************************************************************)
(* main, statement by statement. An exception ends the run: every action   *)
(* needs error = "none".                                                   *)
(***************************************************************************)
Running(at) == pc = at /\ error = "none"

Raise(exc) == /\ error' = exc
              /\ pc' = pc

\* get_commits: subprocess.run(..., check=True) raises CalledProcessError when
\* git fails; line.split / fromisoformat raise ValueError on a bad line.
GetCommitsResult(lines) ==
    LET parsed == ParseLines(lines, <<>>)
    IN IF parsed.ok THEN [exc |-> "none", commits |-> parsed.commits]
       ELSE [exc |-> "ValueError", commits |-> <<>>]

GitFailed == [exc |-> "CalledProcessError", commits |-> <<>>]

\* oh_commits = get_commits(OPENHARNESS_PATH, OPENHARNESS_BRANCH)
FetchOH ==
    /\ Running("fetch_oh")
    /\ \E r \in {GetCommitsResult(l) : l \in OHLogs} \cup {GitFailed} :
         IF r.exc = "none"
         THEN /\ oh_commits' = r.commits
              /\ pc' = "fetch_os"
              /\ error' = error
         ELSE /\ Raise(r.exc)
              /\ oh_commits' = oh_commits
    /\ UNCHANGED <<end_date, os_commits, all_commits, dates, mapping, commit_idx,
                   day_idx, i, assigned, missing, mapping_file, filter_script>>
    /\ UNCHANGED addVars

\* os_commits = get_commits(OPENSCAFFOLD_PATH, OPENSCAFFOLD_BRANCH)
FetchOS ==
    /\ Running("fetch_os")
    /\ \E r \in {GetCommitsResult(l) : l \in OSLogs} \cup {GitFailed} :
         IF r.exc = "none"
         THEN /\ os_commits' = r.commits
              /\ pc' = "combine"
              /\ error' = error
         ELSE /\ Raise(r.exc)
              /\ os_commits' = os_commits
    /\ UNCHANGED <<end_date, oh_commits, all_commits, dates, mapping, commit_idx,
                   day_idx, i, assigned, missing, mapping_file, filter_script>>
    /\ UNCHANGED addVars

\* all_commits = oh_commits + os_commits; dates = generate_date_range(...);
\* len(all_commits) / len(dates) raises ZeroDivisionError on an empty range.
Combine ==
    /\ Running("combine")
    /\ all_commits' = oh_commits \o os_commits
    /\ dates' = generate_date_range(START_DATE, end_date)
    /\ IF Len(dates') = 0
       THEN Raise("ZeroDivisionError")
       ELSE /\ pc' = "redistribute"
            /\ error' = error
    /\ UNCHANGED <<end_date, oh_commits, os_commits, mapping, commit_idx,
                   day_idx, i, assigned, missing, mapping_file, filter_script>>
    /\ UNCHANGED addVars

\* redistribute, lines 69-77: mapping = {}; commit_idx = 0
RedistributeEnter ==
    /\ Running("redistribute")
    /\ mapping' = <<>>
    /\ commit_idx' = 0
    /\ day_idx' = 0
    /\ i' = 0
    /\ assigned' = <<>>
    /\ pc' = "day_loop"
    /\ UNCHANGED <<error, end_date, oh_commits, os_commits, all_commits, dates,
                   missing, mapping_file, filter_script>>
    /\ UNCHANGED addVars

\* One iteration of the inner loop, lines 83-92.
AssignCommit ==
    /\ Running("day_loop")
    /\ day_idx < total_days
    /\ i < CommitsToday(day_idx)
    /\ commit_idx < total_commits
    /\ LET sha == all_commits[commit_idx + 1].sha
           hour == Hour(i, CommitsToday(day_idx))
           minute == Minute(i)
           new_date == Replace(dates[day_idx + 1], hour, minute)
       IN /\ mapping' = DictSet(mapping, sha, new_date)
          /\ assigned' = Append(assigned,
                [sha |-> sha, day_idx |-> day_idx, i |-> i,
                 commits_today |-> CommitsToday(day_idx), new_date |-> new_date])
    /\ commit_idx' = commit_idx + 1
    /\ i' = i + 1
    /\ UNCHANGED <<pc, error, end_date, oh_commits, os_commits, all_commits,
                   dates, day_idx, missing, mapping_file, filter_script>>
    /\ UNCHANGED addVars

\* The inner loop ends (range exhausted, or the break of line 85): next day.
NextDay ==
    /\ Running("day_loop")
    /\ day_idx < total_days
    /\ (i >= CommitsToday(day_idx) \/ commit_idx >= total_commits)
    /\ day_idx' = day_idx + 1
    /\ i' = 0
    /\ UNCHANGED <<pc, error, end_date, oh_commits, os_commits, all_commits,
                   dates, mapping, commit_idx, assigned, missing, mapping_file,
                   filter_script>>
    /\ UNCHANGED addVars

\* The outer loop ends: return mapping.
RedistributeReturn ==
    /\ Running("day_loop")
    /\ day_idx = total_days
    /\ pc' = "summary"
    /\ UNCHANGED <<error, end_date, oh_commits, os_commits, all_commits, dates,
                   mapping, commit_idx, day_idx, i, assigned, missing,
                   mapping_file, filter_script>>
    /\ UNCHANGED addVars

\* A faulty variant: an empty mapping is let through.
SummaryToleratesEmpty == FALSE

\* min(day_counts.values()) raises ValueError when the mapping is empty.
SummaryFails == mapping = <<>>

\* Lines 125-154: the sample (every key of mapping is a commit of all_commits,
\* so next(...) finds it), the coverage check, the per-day counts.
Summary ==
    /\ Running("summary")
    /\ missing' = AllDates \ DatesUsed
    /\ IF SummaryFails
       THEN Raise("ValueError")
       ELSE /\ pc' = "write_mapping"
            /\ error' = error
    /\ UNCHANGED <<end_date, oh_commits, os_commits, all_commits, dates, mapping,
                   commit_idx, day_idx, i, assigned, mapping_file, filter_script>>
    /\ UNCHANGED addVars

\* Lines 157-164. mkdir or open may raise OSError (the file stays absent), and
\* so may a write or the close (the file keeps the lines written before it).
WriteMappingFile ==
    /\ Running("write_mapping")
    /\ \/ /\ mapping_file' = Written(MappingLines(mapping))
          /\ pc' = "write_filter"
          /\ error' = error
       \/ /\ mapping_file' = mapping_file
          /\ Raise("OSError")
       \/ /\ \E n \in 0..Len(mapping) :
                mapping_file' = Partial(MappingLines(mapping), n)
          /\ Raise("OSError")
    /\ UNCHANGED <<end_date, oh_commits, os_commits, all_commits, dates, mapping,
                   commit_idx, day_idx, i, assigned, missing, filter_script>>
    /\ UNCHANGED addVars

\* Lines 167-193.
WriteFilterScript ==
    /\ Running("write_filter")
    /\ \/ /\ filter_script' = Written(TableEntries(mapping))
          /\ pc' = "next_steps"
          /\ error' = error
       \/ /\ filter_script' = filter_script
          /\ Raise("OSError")
       \/ /\ \E n \in 0..Len(mapping) :
                filter_script' = Partial(TableEntries(mapping), n)
          /\ Raise("OSError")
    /\ UNCHANGED <<end_date, oh_commits, os_commits, all_commits, dates, mapping,
                   commit_idx, day_idx, i, assigned, missing, mapping_file>>
    /\ UNCHANGED addVars

\* Lines 195-237: the instructions are printed and main returns.
PrintNextSteps ==
    /\ Running("next_steps")
    /\ pc' = "done"
    /\ UNCHANGED <<error, end_date, oh_commits, os_commits, all_commits, dates,
                   mapping, commit_idx, day_idx, i, assigned, missing,
                   mapping_file, filter_script>>
    /\ UNCHANGED addVars

Next ==
    \/ FetchOH
    \/ FetchOS
    \/ Combine
    \/ RedistributeEnter
    \/ AssignCommit
    \/ NextDay
    \/ RedistributeReturn
    \/ Summary
    \/ WriteMappingFile
    \/ WriteFilterScript
    \/ PrintNextSteps

Spec == Init /\ [][Next]_vars


(***************************************************************************)
(* The add functions. A Python value is [kind, v]: an int or a float of    *)
(* value v, a str of length v, or PyNone.                                    *)
(***************************************************************************)
\* Stands for sys.float_info.max: the largest magnitude float(int) converts.
\* Sums of two ordinary numbers stay below it.
FloatMax == 2 * MaxNum + 1
\* An int too large to convert to float (such as 10**400).
HugeInt == FloatMax + 1

PyInt(n) == [kind |-> "int", v |-> n]
PyFloat(n) == [kind |-> "float", v |-> n]
PyStr(n) == [kind |-> "str", v |-> n]
PyNone == [kind |-> "NoneType", v |-> 0]

OrdinaryNumbers == {PyInt(n) : n \in -MaxNum..MaxNum} \cup {PyFloat(n) : n \in -MaxNum..MaxNum}
Numbers == OrdinaryNumbers \cup {PyInt(HugeInt), PyInt(-HugeInt)}
NonNumbers == {PyStr(1), PyStr(2), PyNone}
Values == Numbers \cup NonNumbers

Returned(value) ==
    [outcome |-> "returned", exc |-> "none", kind |-> value.kind, v |-> value.v]
Raised(exc) == [outcome |-> "raised", exc |-> exc, kind |-> "none", v |-> 0]

Abs(n) == IF n < 0 THEN -n ELSE n

\* Python's a + b. int + int is exact; float + float is a float (within
\* FloatMax here); int + float converts the int, which raises OverflowError
\* when it is too large; str + str concatenates; anything else is an
\* unsupported operand.
PyAdd(a, b) ==
    CASE a.kind = "int" /\ b.kind = "int" -> Returned(PyInt(a.v + b.v))
      [] a.kind = "float" /\ b.kind = "float" -> Returned(PyFloat(a.v + b.v))
      [] a.kind = "int" /\ b.kind = "float" ->
            IF Abs(a.v) > FloatMax THEN Raised("OverflowError")
            ELSE Returned(PyFloat(a.v + b.v))
      [] a.kind = "float" /\ b.kind = "int" ->
            IF Abs(b.v) > FloatMax THEN Raised("OverflowError")
            ELSE Returned(PyFloat(a.v + b.v))
      [] a.kind = "str" /\ b.kind = "str" -> Returned(PyStr(a.v + b.v))
      [] OTHER -> Raised("TypeError")

\* isinstance(x, (int, float))
IsNumber(x) == x.kind \in {"int", "float"}

\* src/add_numbers.py
add_numbers_add(a, b) ==
    IF ~IsNumber(a) \/ ~IsNumber(b) THEN Raised("TypeError") ELSE PyAdd(a, b)

\* A faulty variant: the second argument is subtracted.
SdkAddSubtracts(a, b) ==
    IF ~IsNumber(a) \/ ~IsNumber(b) THEN Raised("TypeError") ELSE PyAdd(a, [b EXCEPT !.v = 0 - b.v])

\* src/packages/sdk/add.py
sdk_add(a, b) ==
    IF ~IsNumber(a) \/ ~IsNumber(b) THEN Raised("TypeError") ELSE PyAdd(a, b)

\* src/packages/sdk/add_numbers.py
sdk_add_numbers_add(a, b) ==
    IF ~IsNumber(a) \/ ~IsNumber(b) THEN Raised("TypeError") ELSE PyAdd(a, b)

\* A call of add in src/add_numbers.py.
CallAddNumbers ==
    /\ \E a \in Values, b \in Values :
         /\ add_a' = a
         /\ add_b' = b
         /\ add_result' = add_numbers_add(a, b)
    /\ add_fn' = "add_numbers.add"
    /\ UNCHANGED scriptVars

\* A call of add in src/packages/sdk/add.py.
CallSdkAdd ==
    /\ \E a \in Values, b \in Values :
         /\ add_a' = a
         /\ add_b' = b
         /\ add_result' = sdk_add(a, b)
    /\ add_fn' = "sdk.add.add"
    /\ UNCHANGED scriptVars

\* A call of add in src/packages/sdk/add_numbers.py.
CallSdkAddNumbers ==
    /\ \E a \in Values, b \in Values :
         /\ add_a' = a
         /\ add_b' = b
         /\ add_result' = sdk_add_numbers_add(a, b)
    /\ add_fn' = "sdk.add_numbers.add"
    /\ UNCHANGED scriptVars

InitAdd ==
    /\ InitScript({START_DATE})
    /\ InitAddVars

NextAdd ==
    \/ CallAddNumbers
    \/ CallSdkAdd
    \/ CallSdkAddNumbers

SpecAdd == InitAdd /\ [][NextAdd]_vars


(***************************************************************************)
(* Properties of redistribute.                                             *)
(***************************************************************************)
\* redistribute has returned its mapping.
RedistributeDone ==
    pc \in {"summary", "write_mapping", "write_filter", "next_steps", "done"}

\* The coverage check of main (lines 141-149) has run.
CoverageChecked ==
    \/ pc \in {"write_mapping", "write_filter", "next_steps", "done"}
    \/ pc = "summary" /\ error # "none"

\* The commits of the input list have pairwise distinct identifiers.
DistinctShas ==
    \A j, k \in DOMAIN all_commits :
        j # k => all_commits[j].sha # all_commits[k].sha

\* The entries of the mapping whose timestamp falls on day `day`.
CountOnDay(day) ==
    Cardinality({k \in DOMAIN mapping : mapping[k].value.day = day})

RECURSIVE SumOfCounts(_)
SumOfCounts(n) ==
    IF n = 0 THEN 0 ELSE CountOnDay(dates[n].day) + SumOfCounts(n - 1)

\* The inner-loop iterations that ran for day index d.
Received(d) ==
    Cardinality({k \in DOMAIN assigned : assigned[k].day_idx = d})

\* The value the mapping holds for a key.
DictGet(m, key) == (CHOOSE k \in DOMAIN m : m[k].key = key)

\* C1: with pairwise distinct identifiers, each of the D days holds floor(C/D)
\* or floor(C/D)+1 entries of the returned mapping, and the per-day counts sum
\* to C.
C1_EvenSplit ==
    (RedistributeDone /\ DistinctShas) =>
        /\ \A d \in DOMAIN dates :
              CountOnDay(dates[d].day) \in
                  {total_commits \div total_days, total_commits \div total_days + 1}
        /\ SumOfCounts(total_days) = total_commits

C1_Witness ==
    /\ RedistributeDone
    /\ DistinctShas
    /\ total_days = 3
    /\ total_commits = 7
    /\ CountOnDay(dates[1].day) = 3
    /\ CountOnDay(dates[3].day) = 2

\* C2: when the day loop has ended, commit_idx is the number of commits, the
\* k-th iteration handled the k-th commit, the keys of the mapping are the
\* input identifiers, and each identifier has one entry (one timestamp).
C2_EveryCommitAssigned ==
    RedistributeDone =>
        /\ commit_idx = total_commits
        /\ Len(assigned) = total_commits
        /\ \A k \in DOMAIN assigned : assigned[k].sha = all_commits[k].sha
        /\ DictKeys(mapping) = {c.sha : c \in Range(all_commits)}
        /\ Cardinality(DictKeys(mapping)) = Len(mapping)

C2_Witness ==
    /\ RedistributeDone
    /\ ~DistinctShas
    /\ total_days = 2
    /\ total_commits = 5
    /\ commit_idx = 5
    /\ Len(mapping) = 4

\* C3: every timestamp produced lies on the day it was assigned to, with hour
\* 9 + floor(14*i/n) in 9..22, minute (7*i) mod 60 in 0..59 and second 0, for
\* n >= 1 commits of the day and i in 0..n-1; the mapping holds only such
\* timestamps.
C3_WithinWindow ==
    /\ \A k \in DOMAIN assigned :
          LET r == assigned[k]
          IN /\ r.commits_today >= 1
             /\ r.i \in 0..(r.commits_today - 1)
             /\ r.new_date.day = dates[r.day_idx + 1].day
             /\ r.new_date.hour = 9 + ((14 * r.i) \div r.commits_today)
             /\ r.new_date.hour \in 9..22
             /\ r.new_date.minute = (7 * r.i) % 60
             /\ r.new_date.minute \in 0..59
             /\ r.new_date.second = 0
    /\ DictValues(mapping) \subseteq {assigned[k].new_date : k \in DOMAIN assigned}

C3_Witness ==
    \E k \in DOMAIN assigned :
        /\ k \in DOMAIN mapping
        /\ assigned[k].commits_today = 15
        /\ assigned[k].i = 14
        /\ assigned[k].new_date.hour = 22
        /\ assigned[k].new_date.minute = 38
        /\ mapping[k].value = assigned[k].new_date

\* C4: no day outside the range ever appears among the timestamps; with
\* distinct identifiers and C >= D >= 1 the days of the returned mapping are
\* the whole range and the coverage check finds no missing day.
C4_AllDaysCovered ==
    /\ DatesUsed \subseteq AllDates
    /\ (CoverageChecked /\ DistinctShas /\ total_commits >= total_days) =>
          /\ missing = {}
          /\ DatesUsed = AllDates

C4_Witness ==
    /\ CoverageChecked
    /\ DistinctShas
    /\ total_days = 3
    /\ total_commits = 4
    /\ DatesUsed = {0, 1, 2}
    /\ missing = {}

\* C5: the first (C mod D) days receive floor(C/D)+1 commits and every later
\* day floor(C/D), so no day receives more than a day before it.
C5_LeftoverToEarliest ==
    RedistributeDone =>
        /\ \A d \in 0..(total_days - 1) :
              Received(d) = (total_commits \div total_days)
                              + (IF d < total_commits % total_days THEN 1 ELSE 0)
        /\ \A d1, d2 \in 0..(total_days - 1) :
              d1 < d2 => Received(d1) >= Received(d2)

C5_Witness ==
    /\ RedistributeDone
    /\ total_days = 3
    /\ total_commits = 8
    /\ Received(0) = 3
    /\ Received(1) = 3
    /\ Received(2) = 2

\* C8: for distinct identifiers (the dates ascend), a commit that precedes
\* another in the input list gets a timestamp that is not later.
C8_OrderPreserved ==
    (RedistributeDone /\ DistinctShas) =>
        \A j, k \in DOMAIN all_commits :
            j < k =>
                Timestamp(mapping[DictGet(mapping, all_commits[j].sha)].value)
                    <= Timestamp(mapping[DictGet(mapping, all_commits[k].sha)].value)


(***************************************************************************)
(* Properties of the run of main.                                          *)
(***************************************************************************)
\* The place of a statement in the sequence of main.
StepRank(at) ==
    CASE at = "fetch_oh" -> 1
      [] at = "fetch_os" -> 2
      [] at = "combine" -> 3
      [] at = "redistribute" -> 4
      [] at = "day_loop" -> 5
      [] at = "summary" -> 6
      [] at = "write_mapping" -> 7
      [] at = "write_filter" -> 8
      [] at = "next_steps" -> 9
      [] at = "done" -> 10

NoArtifact == mapping_file = Absent /\ filter_script = Absent

\* What a failed run leaves, and the order of the two artifacts.
AbortLeavesNothingLater ==
    /\ error # "none" => pc # "done"
    /\ (error # "none" /\ pc \in {"fetch_oh", "fetch_os", "combine", "summary"})
          => NoArtifact
    /\ end_date < START_DATE => NoArtifact
    /\ all_commits = <<>> => NoArtifact
    /\ StepRank(pc) <= StepRank("write_mapping") => filter_script = Absent
    /\ filter_script # Absent => mapping_file.state = "written"

\* Every step is taken by a run that has not failed, stays at its statement or
\* moves to the next one, and a step that fails stays at its statement.
LinearStep ==
    /\ error = "none"
    /\ StepRank(pc') \in {StepRank(pc), StepRank(pc) + 1}
    /\ error' # "none" => pc' = pc
    /\ StepRank(pc') = StepRank(pc) => (pc = "day_loop" \/ error' # "none")

\* C9: main is a linear sequence in which a failing step ends the run at that
\* step (nothing runs later, nothing is retried); a failed fetch or parse, an
\* empty date range or an empty commit list leaves both artifacts unwritten,
\* and the filter script is written only after the mapping file.
C9_FailureEndsRun == []AbortLeavesNothingLater /\ [][LinearStep]_vars

C9_Witness ==
    /\ pc = "summary"
    /\ error = "ValueError"
    /\ all_commits = <<>>
    /\ total_days = 2
    /\ missing = {0, 1}
    /\ NoArtifact

\* C10: after a successful run the mapping file has one line and the DATE_MAP
\* table one entry per mapping entry, in the mapping's order, with the same
\* identifier, the same timestamp and offset -0800; author and committer
\* dates of an entry are equal.
C10_ArtifactsAgree ==
    pc = "done" =>
        /\ mapping_file.state = "written"
        /\ filter_script.state = "written"
        /\ Len(mapping_file.content) = Len(mapping)
        /\ Len(filter_script.content) = Len(mapping)
        /\ \A k \in DOMAIN mapping :
              LET line == mapping_file.content[k]
                  entry == filter_script.content[k]
              IN /\ line.sha = mapping[k].key
                 /\ entry.key = mapping[k].key
                 /\ line.timestamp = Timestamp(mapping[k].value)
                 /\ line.offset = "-0800"
                 /\ entry.author_date = [timestamp |-> line.timestamp,
                                         offset |-> line.offset]
                 /\ entry.committer_date = entry.author_date

C10_Witness ==
    /\ pc = "done"
    /\ error = "none"
    /\ total_commits = 4
    /\ Len(mapping) = 3
    /\ Len(mapping_file.content) = 3
    /\ filter_script.content[3].author_date.timestamp > 86400

C7_OnlyTypeError ==
    add_fn # "none" =>
        /\ (~IsNumber(add_a) \/ ~IsNumber(add_b)) => add_result = Raised("TypeError")
        /\ add_result.outcome = "raised" => add_result.exc = "TypeError"

====
